---- MODULE Spec2Model ----
(***************************************************************************)
(* Offline-first replication engine of DSP Nexus: the local document store *)
(* and mutation outbox (src/src/lib/sync), the pull and push endpoints     *)
(* (src/unnamed/part_002) and the SyncProvider that schedules them         *)
(* (src/src/components/AppHeader.tsx, second file of that listing).        *)
(*                                                                         *)
(* Documents are projected onto the fields the sync logic reads: one       *)
(* whitelisted checkoff field (key_status), one read-only field            *)
(* (driver_id), updated_at and the two local sync-metadata fields.         *)
(*                                                                         *)
(* The storage engine is an external collaborator.  It is modelled as a    *)
(* keyed document store: a query returns copies of the stored documents,   *)
(* patch(fields) overwrites the named fields of the stored document with   *)
(* that primary key, remove() deletes it, insert() of an existing key and  *)
(* a write to a removed document throw.  A handler yields to the others    *)
(* at its network calls and between the phases named by its actions; the   *)
(* store operations of one phase run without interruption.                 *)
(*                                                                         *)
(* Time is counted in ticks of 1/SubMs millisecond: the server stamps      *)
(* updated_at with sub-millisecond precision, Date.now() and               *)
(* new Date(iso).getTime() yield whole milliseconds.                       *)
(***************************************************************************)
EXTENDS Integers, Sequences, FiniteSets, TLC

\* ---------------------------------------------------------------- bounds
NumRecs == 1            \* assignment records of the scope
MaxEdits == 2           \* local edits (mutation ids 1..MaxEdits)
MaxTicks == 1           \* clock ticks after the initial state
MaxWrites == 1          \* updates made by other writers on the server
SubMs == 2              \* clock ticks per millisecond
PageLimit == 1          \* rows per pull page (DEFAULT_LIMIT, scaled down)
BatchCap == 2            \* mutations per push request the endpoint takes (50, scaled)
MaxStarts == 3          \* triggerSync and debounced-push invocations

\* ------------------------------------------------------ program constants
MAX_RETRIES == 3

RecIds == 1..NumRecs
MutIds == 1..MaxEdits
Procs == {"p1", "p2"}
KeyVals == {"STATION", "WITH_DRIVER"}
DISPATCHER_PATCHABLE_COLUMNS == {"key_status"}
DISPATCHER_READONLY_COLUMNS == {"driver_id"}

\* the initial clock: the last tick of millisecond 1
InitTime == 2 * SubMs - 1

NoDoc == [absent |-> TRUE]
NoCp == -1              \* checkpoint undefined
EpochCp == 0            \* new Date(0).toISOString()

\* Date.now() / new Date(iso).getTime(): whole milliseconds of a tick count
getTime(t) == t \div SubMs

\* the value the dispatcher's gestures set
EditVals == {"WITH_DRIVER"}

\* patches a caller may hand to applyLocalMutation
Patches ==
  {("key_status" :> v) : v \in EditVals}
    \cup {("driver_id" :> "d2")}
    \cup {("key_status" :> v) @@ ("driver_id" :> "d2") : v \in EditVals}

\* applyLocalMutation's own whitelist filter
invalidKeysIgnoringWhitelist(patch) == {}

invalidKeys(patch) ==
  {k \in DOMAIN patch : k \notin DISPATCHER_PATCHABLE_COLUMNS}

\* the push endpoint's whitelist filter
getDisallowedColumns(patch) ==
  {k \in DOMAIN patch : k \notin DISPATCHER_PATCHABLE_COLUMNS}

\* RxDocument.patch: overwrite the named fields
ApplyPatch(doc, patch) ==
  [f \in DOMAIN doc |-> IF f \in DOMAIN patch THEN patch[f] ELSE doc[f]]

VARIABLES
  assignments,    \* local store: record id -> document or NoDoc
  mutations,      \* local outbox: mutation id -> entry or NoDoc
  made,           \* number of mutation ids handed out
  server,         \* daily_assignments rows: record id -> row
  writes,         \* updates made by other writers so far
  now,            \* clock, in ticks
  checkpointRef,  \* SyncProvider's checkpointRef.current
  edit,           \* the applyLocalMutation call in progress
  proc,           \* the triggerSync / debounced-push invocations in progress
  starts,         \* invocations started so far
  deliveredMax,   \* per record: largest created_at the push endpoint has seen
  fx,             \* inputs and outputs of the function-level specifications
  state,          \* SyncProvider's SyncState: status and error
  onLine,         \* navigator.onLine
  pushTimeoutRef, \* TRUE while the debounce timer of triggerPush is pending
  today,          \* the date todayInTimeZone() returns
  cpDate,         \* history: the date of the pull that produced checkpointRef
  effectDeps      \* the state.status the sync effect last ran with

vars == <<assignments, mutations, made, server, writes, now, checkpointRef,
          edit, proc, starts, deliveredMax, fx, state, onLine, pushTimeoutRef,
          today, cpDate, effectDeps>>

engineVars == <<assignments, mutations, made, server, writes, now,
                checkpointRef, edit, proc, starts, deliveredMax, state, onLine,
                pushTimeoutRef, today, cpDate, effectDeps>>

\* pc: idle, patched (between the optimistic patch and the queue insert), or
\* the error the last call threw (invalid_keys, not_found, insert_failed)
IdleEdit == [pc |-> "idle", id |-> 0, patch |-> ("key_status" :> "STATION")]

IdleProc == [kind |-> "none", pc |-> "idle", date |-> "none", cp |-> NoCp,
             page |-> <<>>,
             respcp |-> NoCp, more |-> FALSE,
             snap |-> <<>>, i |-> 0, results |-> <<>>]

NoFx == [k |-> "none"]

\* the dates of the model: the day the provider is mounted and the next one
FirstDay == "day1"

NextDay == "day2"

\* SyncState once the local database is open and the browser is online
ReadyState == [status |-> "online", error |-> "none"]

\* the provider after its database was opened: no debounce timer pending
ProviderInit ==
  /\ state = ReadyState
  /\ onLine = TRUE
  /\ pushTimeoutRef = FALSE
  /\ today = FirstDay
  /\ effectDeps = "unrun"

EngineInit ==
  /\ assignments = [r \in RecIds |-> NoDoc]
  /\ mutations = [m \in MutIds |-> NoDoc]
  /\ made = 0
  /\ server = [r \in RecIds |->
                 [key_status |-> "STATION", driver_id |-> "d1", updated_at |-> 1]]
  /\ writes = 0
  /\ now = InitTime
  /\ checkpointRef = NoCp
  /\ cpDate = "none"
  /\ edit = IdleEdit
  /\ proc = [p \in Procs |-> IdleProc]
  /\ starts = 0
  /\ deliveredMax = [r \in RecIds |-> 0]
  /\ ProviderInit

Init == EngineInit /\ fx = NoFx

\* ------------------------------------------------------------ environment
Tick ==
  /\ now < InitTime + MaxTicks
  /\ now' = now + 1
  /\ UNCHANGED <<assignments, mutations, made, server, writes, checkpointRef,
                 edit, proc, starts, deliveredMax, fx, state, onLine,
                 pushTimeoutRef, today, effectDeps, cpDate>>

\* another writer (another dispatcher, the import pipeline) updates a row
OtherWriter(r, v) ==
  /\ writes < MaxWrites
  /\ server[r].key_status # v
  /\ server' = [server EXCEPT ![r].key_status = v, ![r].updated_at = now]
  /\ writes' = writes + 1
  /\ UNCHANGED <<assignments, mutations, made, now, checkpointRef, edit, proc,
                 starts, deliveredMax, fx, state, onLine, pushTimeoutRef,
                 today, effectDeps, cpDate>>

\* ------------------------------------------------- applyLocalMutation
\* call: validate the patch, findOne(assignmentId), throw if absent, else
\* the optimistic assignment.patch
EditCall(r, patch) ==
  /\ edit.pc \in {"idle", "invalid_keys", "not_found", "insert_failed"}
  /\ made < MaxEdits
  /\ IF invalidKeys(patch) # {}
       THEN /\ edit' = [IdleEdit EXCEPT !.pc = "invalid_keys"]
            /\ UNCHANGED assignments
     ELSE IF assignments[r] = NoDoc
       THEN /\ edit' = [IdleEdit EXCEPT !.pc = "not_found"]
            /\ UNCHANGED assignments
       ELSE /\ assignments' =
                 [assignments EXCEPT ![r] =
                    ApplyPatch(@, patch @@ ("lua" :> getTime(now))
                                        @@ ("pending" :> TRUE))]
            /\ edit' = [pc |-> "patched", id |-> r, patch |-> patch]
  /\ UNCHANGED <<mutations, made, server, writes, now, checkpointRef, proc,
                 starts, deliveredMax, fx, state, onLine, pushTimeoutRef,
                 today, effectDeps, cpDate>>

\* queueMutation(q, ...): the outbox with the new entry inserted
queueMutation(q, id, assignmentId, patch, t) ==
  [q EXCEPT ![id] = [assignment_id |-> assignmentId, patch |-> patch,
                     created_at |-> t, status |-> "pending",
                     error |-> "none", retry_count |-> 0]]

\* triggerPush: the pending debounce timer is cleared and a new one is set
triggerPush == pushTimeoutRef' = TRUE

\* the queue insert completes and applyLocalMutation returns; the calling
\* hook of useOfflineMutation then calls triggerPush
EditQueue ==
  /\ edit.pc = "patched"
  /\ mutations' = queueMutation(mutations, made + 1, edit.id, edit.patch,
                                getTime(now))
  /\ made' = made + 1
  /\ edit' = IdleEdit
  /\ triggerPush
  /\ UNCHANGED <<assignments, server, writes, now, checkpointRef, proc,
                 starts, deliveredMax, fx, state, onLine, today, effectDeps,
                 cpDate>>

\* ------------------------------------------------------- pull endpoint
\* all orderings of the ids in S by key ascending (ties in any order)
OrderedBy(S, key) ==
  {s \in [1..Cardinality(S) -> S] :
     /\ \A i, j \in DOMAIN s : i # j => s[i] # s[j]
     /\ \A i, j \in DOMAIN s : i < j => key[s[i]] <= key[s[j]]}

Prefix(s, n) == [i \in 1..(IF Len(s) < n THEN Len(s) ELSE n) |-> s[i]]

denormalizeRow(id, row) ==
  [id |-> id, key_status |-> row.key_status, driver_id |-> row.driver_id,
   updated_at |-> row.updated_at, lua |-> 0, pending |-> FALSE]

\* rows of the scope changed after the checkpoint
PullMatches(srv, checkpoint) ==
  {r \in DOMAIN srv : checkpoint = NoCp \/ srv[r].updated_at > checkpoint}

\* the response to {date, checkpoint, limit} for one ordering of the rows
PullResponse(srv, checkpoint, limit, order) ==
  LET rows == Prefix(order, limit + 1)
      hasMore == Len(rows) > limit
      resultRows == IF hasMore THEN Prefix(rows, limit) ELSE rows
      docs == [i \in DOMAIN resultRows |->
                 denormalizeRow(resultRows[i], srv[resultRows[i]])]
  IN [assignments |-> docs,
      checkpoint |-> IF Len(docs) > 0 THEN docs[Len(docs)].updated_at
                     ELSE IF checkpoint = NoCp THEN EpochCp ELSE checkpoint,
      hasMore |-> hasMore]

\* ---------------------------------------------------- upsertAssignment
\* the fields spread from serverDoc
UpsertFields(serverDoc) ==
  [f \in DOMAIN serverDoc \ {"id"} |-> serverDoc[f]]

UpsertWriteNoPendingCheck(store, serverDoc, existing) ==
  IF existing = NoDoc
    THEN [store EXCEPT ![serverDoc.id] =
            UpsertFields(serverDoc) @@ ("lua" :> 0) @@ ("pending" :> FALSE)]
    ELSE [store EXCEPT ![serverDoc.id] =
            ApplyPatch(@, ("lua" :> existing.lua) @@ ("pending" :> FALSE)
                          @@ UpsertFields(serverDoc))]

UpsertWriteBumpsLocal(store, serverDoc, existing) ==
  IF existing = NoDoc
    THEN [store EXCEPT ![serverDoc.id] =
            ApplyPatch(UpsertFields(serverDoc),
                       ("lua" :> 0) @@ ("pending" :> FALSE))]
  ELSE IF existing.pending
    THEN store
    ELSE [store EXCEPT ![serverDoc.id] =
            ApplyPatch(@, ("lua" :> existing.lua + 1) @@ ("pending" :> FALSE)
                          @@ UpsertFields(serverDoc))]

\* the write that follows findOne(serverDoc.id) = existing
UpsertWrite(store, serverDoc, existing) ==
  IF existing = NoDoc
    THEN [store EXCEPT ![serverDoc.id] =
            ApplyPatch(UpsertFields(serverDoc),
                       ("lua" :> 0) @@ ("pending" :> FALSE))]
  ELSE IF existing.pending
    THEN store
    ELSE [store EXCEPT ![serverDoc.id] =
            ApplyPatch(@, ("lua" :> existing.lua) @@ ("pending" :> FALSE)
                          @@ UpsertFields(serverDoc))]

\* upsertAssignment run without interruption
upsertAssignment(store, serverDoc) ==
  UpsertWrite(store, serverDoc, store[serverDoc.id])

\* ------------------------------------------------------- push endpoint
\* one mutation against the rows; updateError: the UPDATE statement fails
processMutationStrict(srv, m, updateError) ==
  IF getDisallowedColumns(m.patch) # {}
    THEN [srv |-> srv,
          result |-> [mutation_id |-> m.id, status |-> "rejected",
                      error |-> "forbidden", server_doc |-> NoDoc]]
  ELSE IF m.assignment_id \notin DOMAIN srv
    THEN [srv |-> srv,
          result |-> [mutation_id |-> m.id, status |-> "rejected",
                      error |-> "not_found", server_doc |-> NoDoc]]
  ELSE IF m.timestamp < getTime(srv[m.assignment_id].updated_at)
    THEN [srv |-> srv,
          result |-> [mutation_id |-> m.id, status |-> "conflict",
                      error |-> "none",
                      server_doc |-> denormalizeRow(m.assignment_id,
                                                    srv[m.assignment_id])]]
  ELSE IF updateError
    THEN [srv |-> srv,
          result |-> [mutation_id |-> m.id, status |-> "rejected",
                      error |-> "update_failed", server_doc |-> NoDoc]]
  ELSE [srv |-> [srv EXCEPT ![m.assignment_id] = ApplyPatch(@, m.patch)],
        result |-> [mutation_id |-> m.id, status |-> "accepted",
                    error |-> "none", server_doc |-> NoDoc]]

processMutation(srv, m, updateError) ==
  IF getDisallowedColumns(m.patch) # {}
    THEN [srv |-> srv,
          result |-> [mutation_id |-> m.id, status |-> "rejected",
                      error |-> "forbidden", server_doc |-> NoDoc]]
  ELSE IF m.assignment_id \notin DOMAIN srv
    THEN [srv |-> srv,
          result |-> [mutation_id |-> m.id, status |-> "rejected",
                      error |-> "not_found", server_doc |-> NoDoc]]
  ELSE IF m.timestamp <= getTime(srv[m.assignment_id].updated_at)
    THEN [srv |-> srv,
          result |-> [mutation_id |-> m.id, status |-> "conflict",
                      error |-> "none",
                      server_doc |-> denormalizeRow(m.assignment_id,
                                                    srv[m.assignment_id])]]
  ELSE IF updateError
    THEN [srv |-> srv,
          result |-> [mutation_id |-> m.id, status |-> "rejected",
                      error |-> "update_failed", server_doc |-> NoDoc]]
  ELSE [srv |-> [srv EXCEPT ![m.assignment_id] = ApplyPatch(@, m.patch)],
        result |-> [mutation_id |-> m.id, status |-> "accepted",
                    error |-> "none", server_doc |-> NoDoc]]

\* the POST handler's loop: the mutations in request order; failAt is the
\* position whose UPDATE fails (0: none)
RECURSIVE PushResults(_, _, _, _)
PushResults(srv, req, k, failAt) ==
  IF k > Len(req)
    THEN [srv |-> srv, results |-> <<>>]
    ELSE LET one == processMutation(srv, req[k], k = failAt)
             rest == PushResults(one.srv, req, k + 1, failAt)
         IN [srv |-> rest.srv, results |-> <<one.result>> \o rest.results]

\* ----------------------------------------------------------- triggerSync
Others == <<assignments, mutations, made, server, writes, now, checkpointRef,
            edit, deliveredMax, fx, onLine, today>>

\* end of an invocation
Finish(p) == proc' = [proc EXCEPT ![p] = IdleProc]

\* the effect of the initial and periodic sync has state.status among its
\* dependencies: when the status changes, its cleanup clears the debounce
\* timer (the triggerSync() call of the effect that runs again is a
\* StartSync step)
EffectCleanup(status) ==
  pushTimeoutRef' = IF status # state.status THEN FALSE ELSE pushTimeoutRef

\* setState with a new status and error: the provider renders again
setStatus(s) ==
  /\ state' = s
  /\ EffectCleanup(s.status)

\* how an invocation ends: triggerSync sets online after pushMutations
\* returned, and error (offline when the browser is offline) in its catch;
\* the timer callback of triggerPush only logs what pushMutations threw
Settle(p, threw) ==
  IF proc[p].kind = "sync"
    THEN setStatus(IF threw
                     THEN [status |-> IF onLine THEN "error" ELSE "offline",
                           error |-> "message"]
                     ELSE ReadyState)
    ELSE UNCHANGED <<state, pushTimeoutRef>>

\* triggerSync passes its guard, sets syncing, and pullChanges sends the
\* first page request for today's date with the stored checkpoint
triggerSync(p) ==
  /\ proc[p].pc = "idle"
  /\ onLine
  /\ setStatus([status |-> "syncing", error |-> "none"])
  /\ proc' = [proc EXCEPT ![p] = [IdleProc EXCEPT !.kind = "sync",
                                                 !.pc = "pull_wait",
                                                 !.date = today,
                                                 !.cp = checkpointRef]]
  /\ UNCHANGED <<Others, cpDate>>

\* a trigger calls triggerSync
StartSync(p) ==
  /\ starts < MaxStarts
  /\ starts' = starts + 1
  /\ triggerSync(p)
  /\ UNCHANGED effectDeps

\* the rows with day_date = date: the rows of the model are of FirstDay
ScopeRows(date) ==
  IF date = FirstDay THEN server ELSE [r \in {} |-> NoDoc]

\* the pull endpoint answers the request
ServePull(p) ==
  /\ proc[p].pc = "pull_wait"
  /\ \E order \in OrderedBy(PullMatches(ScopeRows(proc[p].date), proc[p].cp),
                            [r \in DOMAIN server |-> server[r].updated_at]) :
       LET resp == PullResponse(ScopeRows(proc[p].date), proc[p].cp,
                                PageLimit, order)
       IN proc' = [proc EXCEPT ![p].pc = "pull_page",
                               ![p].page = resp.assignments,
                               ![p].respcp = resp.checkpoint,
                               ![p].more = resp.hasMore]
  /\ UNCHANGED <<Others, starts, state, pushTimeoutRef, cpDate, effectDeps>>

\* fetch throws, the response is not ok, or its body does not parse
PullFail(p) ==
  /\ proc[p].pc = "pull_wait"
  /\ Finish(p)
  /\ Settle(p, TRUE)
  /\ UNCHANGED <<Others, starts, cpDate, effectDeps>>

\* the loop over data.assignments
RECURSIVE UpsertAll(_, _)
UpsertAll(store, docs) ==
  IF docs = <<>> THEN store
  ELSE UpsertAll(upsertAssignment(store, Head(docs)), Tail(docs))

\* a variant of PullApply that stores the checkpoint after every page
PullApplyStoresEachPage(p) ==
  /\ proc[p].pc = "pull_page"
  /\ assignments' = UpsertAll(assignments, proc[p].page)
  /\ checkpointRef' = proc[p].respcp
  /\ cpDate' = proc[p].date
  /\ proc' = IF proc[p].more
               THEN [proc EXCEPT ![p].pc = "pull_wait",
                                 ![p].cp = proc[p].respcp,
                                 ![p].page = <<>>,
                                 ![p].respcp = NoCp, ![p].more = FALSE]
               ELSE [proc EXCEPT ![p] = [IdleProc EXCEPT !.kind = "sync",
                                                        !.pc = "find"]]
  /\ UNCHANGED <<mutations, made, server, writes, now, edit, starts,
                 deliveredMax, fx, state, onLine, pushTimeoutRef, today,
                 effectDeps>>

\* a page is upserted; then the next page is requested, or pullChanges
\* returns and triggerSync stores the checkpoint
PullApply(p) ==
  /\ proc[p].pc = "pull_page"
  /\ assignments' = UpsertAll(assignments, proc[p].page)
  /\ IF proc[p].more
       THEN /\ proc' = [proc EXCEPT ![p].pc = "pull_wait",
                                    ![p].cp = proc[p].respcp,
                                    ![p].page = <<>>,
                                    ![p].respcp = NoCp, ![p].more = FALSE]
            /\ UNCHANGED <<checkpointRef, cpDate>>
       ELSE /\ checkpointRef' = proc[p].respcp
            /\ cpDate' = proc[p].date
            /\ proc' = [proc EXCEPT ![p] = [IdleProc EXCEPT !.kind = "sync",
                                                           !.pc = "find"]]
  /\ UNCHANGED <<mutations, made, server, writes, now, edit, starts,
                 deliveredMax, fx, state, onLine, pushTimeoutRef, today,
                 effectDeps>>

\* --------------------------------------------------------- pushMutations
Pending(q) == {m \in DOMAIN q : q[m] # NoDoc /\ q[m].status = "pending"}

\* a query result: the document as stored when the query ran
Handle(q, m) ==
  [id |-> m, assignment_id |-> q[m].assignment_id, patch |-> q[m].patch,
   created_at |-> q[m].created_at, retry_count |-> q[m].retry_count]

\* find({status: "pending"}, sort created_at asc)
PendingSnapshots(q) ==
  {[i \in DOMAIN s |-> Handle(q, s[i])] :
     s \in OrderedBy(Pending(q),
                      [m \in Pending(q) |-> q[m].created_at])}

\* the push request built from the snapshot
PushRequest(snap) ==
  [i \in DOMAIN snap |->
     [id |-> snap[i].id, assignment_id |-> snap[i].assignment_id,
      patch |-> snap[i].patch, timestamp |-> snap[i].created_at]]

\* the debounce timer fires while the browser is online: pushMutations
\* alone
StartPush(p) ==
  /\ proc[p].pc = "idle"
  /\ starts < MaxStarts
  /\ pushTimeoutRef
  /\ onLine
  /\ pushTimeoutRef' = FALSE
  /\ starts' = starts + 1
  /\ proc' = [proc EXCEPT ![p] = [IdleProc EXCEPT !.kind = "push",
                                                 !.pc = "find"]]
  /\ UNCHANGED <<Others, state, cpDate, effectDeps>>

\* the pending entries are read; nothing to push ends the invocation
PushFind(p) ==
  /\ proc[p].pc = "find"
  /\ \E snap \in PendingSnapshots(mutations) :
       IF Len(snap) = 0
         THEN Finish(p) /\ Settle(p, FALSE)
         ELSE /\ proc' = [proc EXCEPT ![p].pc = "mark", ![p].snap = snap]
              /\ UNCHANGED <<state, pushTimeoutRef>>
  /\ UNCHANGED <<Others, starts, cpDate, effectDeps>>

\* the fields each loop of pushMutations patches onto an entry, from its
\* handle h: marking in_flight, the not-ok branch, the catch block
LoopFields(loop, h) ==
  CASE loop = "mark" -> ("status" :> "in_flight")
    [] loop = "revert" ->
         ("status" :> "pending") @@ ("retry_count" :> h.retry_count + 1)
    [] loop = "catch" ->
         IF h.retry_count < MAX_RETRIES
           THEN ("status" :> "pending")
                  @@ ("retry_count" :> h.retry_count + 1)
           ELSE ("status" :> "failed") @@ ("error" :> "transport")

\* a loop of mutation.patch(...) over the snapshot from entry k; a removed
\* entry throws and ends the loop
RECURSIVE PatchLoop(_, _, _, _)
PatchLoop(q, snap, k, loop) ==
  IF k > Len(snap) THEN [q |-> q, threw |-> FALSE]
  ELSE IF q[snap[k].id] = NoDoc THEN [q |-> q, threw |-> TRUE]
  ELSE PatchLoop([q EXCEPT ![snap[k].id] =
                    ApplyPatch(@, LoopFields(loop, snap[k]))],
                 snap, k + 1, loop)

\* the catch block of pushMutations, which rethrows
CatchBlock(q, snap) == PatchLoop(q, snap, 1, "catch").q

\* the snapshot is marked in_flight and the request is sent
PushMark(p) ==
  /\ proc[p].pc = "mark"
  /\ LET out == PatchLoop(mutations, proc[p].snap, 1, "mark")
     IN /\ mutations' = out.q
        /\ IF out.threw
             THEN Finish(p) /\ Settle(p, TRUE)
             ELSE /\ proc' = [proc EXCEPT ![p].pc = "push_wait"]
                  /\ UNCHANGED <<state, pushTimeoutRef>>
  /\ UNCHANGED <<assignments, made, server, writes, now, checkpointRef, edit,
                 starts, deliveredMax, fx, onLine, today, effectDeps, cpDate>>

Max(a, b) == IF a > b THEN a ELSE b

\* the largest timestamp of a request per record, merged into the history
Delivered(dm, req) ==
  [r \in DOMAIN dm |->
     LET ts == {req[k].timestamp : k \in {j \in DOMAIN req :
                                            req[j].assignment_id = r}}
     IN IF ts = {} THEN dm[r]
        ELSE Max(dm[r], CHOOSE t \in ts : \A u \in ts : u <= t)]

\* the push endpoint processes the request and answers
ServePush(p) ==
  /\ proc[p].pc = "push_wait"
  /\ Len(proc[p].snap) <= BatchCap
  /\ \E failAt \in 0..Len(proc[p].snap) :
       LET out == PushResults(server, PushRequest(proc[p].snap), 1, failAt)
       IN /\ server' = out.srv
          /\ proc' = [proc EXCEPT ![p].pc = "push_resp", ![p].i = 1,
                                  ![p].results = out.results]
  /\ deliveredMax' = Delivered(deliveredMax, PushRequest(proc[p].snap))
  /\ UNCHANGED <<assignments, mutations, made, writes, now, checkpointRef,
                 edit, starts, fx, state, onLine, pushTimeoutRef, today,
                 effectDeps, cpDate>>

\* fetch throws (the request never arrived, or its response was lost): the
\* catch block runs
PushThrow(p) ==
  /\ proc[p].pc \in {"push_wait", "push_resp"}
  /\ proc[p].pc = "push_resp" => proc[p].i = 1
  /\ mutations' = CatchBlock(mutations, proc[p].snap)
  /\ Finish(p)
  /\ Settle(p, TRUE)
  /\ UNCHANGED <<assignments, made, server, writes, now, checkpointRef, edit,
                 starts, deliveredMax, fx, onLine, today, effectDeps, cpDate>>

\* the endpoint answers with a status that is not ok (401, 400, 500): the
\* entries are reverted, the branch throws and the catch block runs
PushNotOk(p) ==
  /\ proc[p].pc = "push_wait"
  /\ mutations' =
       CatchBlock(PatchLoop(mutations, proc[p].snap, 1, "revert").q,
                  proc[p].snap)
  /\ Finish(p)
  /\ Settle(p, TRUE)
  /\ UNCHANGED <<assignments, made, server, writes, now, checkpointRef, edit,
                 starts, deliveredMax, fx, onLine, today, effectDeps, cpDate>>

\* one iteration of the loop over data.results, for handle h of the snapshot
ProcessResult(store, q, res, h) ==
  IF res.status = "accepted"
    THEN IF q[h.id] = NoDoc
           THEN [store |-> store, q |-> q, threw |-> TRUE]
           ELSE LET q2 == [q EXCEPT ![h.id] = NoDoc]
                    r == h.assignment_id
                IN [store |-> IF store[r] = NoDoc THEN store
                              ELSE [store EXCEPT
                                      ![r].pending = FALSE],
                    q |-> q2, threw |-> FALSE]
  ELSE IF res.status = "conflict"
    THEN LET store2 == IF res.server_doc = NoDoc THEN store
                       ELSE upsertAssignment(store, res.server_doc)
         IN IF q[h.id] = NoDoc
              THEN [store |-> store2, q |-> q, threw |-> TRUE]
              ELSE [store |-> store2, q |-> [q EXCEPT ![h.id] = NoDoc],
                    threw |-> FALSE]
  ELSE IF q[h.id] = NoDoc
    THEN [store |-> store, q |-> q, threw |-> TRUE]
    ELSE [store |-> store,
          q |-> [q EXCEPT ![h.id] =
                   ApplyPatch(@, ("status" :> "failed")
                                 @@ ("error" :> res.error)
                                 @@ ("retry_count" :> h.retry_count + 1))],
          threw |-> FALSE]

\* the next result of the response is processed; after the last one
\* pushMutations returns; a throw runs the catch block
PushResult(p) ==
  /\ proc[p].pc = "push_resp"
  /\ LET res == proc[p].results[proc[p].i]
         hs == {proc[p].snap[k] : k \in DOMAIN proc[p].snap}
         h == CHOOSE x \in hs : x.id = res.mutation_id
         out == ProcessResult(assignments, mutations, res, h)
     IN /\ assignments' = out.store
        /\ mutations' = IF out.threw THEN CatchBlock(out.q, proc[p].snap)
                        ELSE out.q
        /\ IF out.threw \/ proc[p].i = Len(proc[p].results)
             THEN Finish(p) /\ Settle(p, out.threw)
             ELSE /\ proc' = [proc EXCEPT ![p].i = proc[p].i + 1]
                  /\ UNCHANGED <<state, pushTimeoutRef>>
  /\ UNCHANGED <<made, server, writes, now, checkpointRef, edit, starts,
                 deliveredMax, fx, onLine, today, effectDeps, cpDate>>

\* ------------------------------------------------- clearFailedMutations
clearFailedMutations(q) ==
  [m \in DOMAIN q |->
     IF q[m] # NoDoc /\ q[m].status = "failed"
       THEN [q[m] EXCEPT !.status = "pending", !.retry_count = 0,
                         !.error = "none"]
       ELSE q[m]]

ClearFailed ==
  /\ \E m \in DOMAIN mutations :
       mutations[m] # NoDoc /\ mutations[m].status = "failed"
  /\ mutations' = clearFailedMutations(mutations)
  /\ UNCHANGED <<assignments, made, server, writes, now, checkpointRef, edit,
                 proc, starts, deliveredMax, fx, state, onLine,
                 pushTimeoutRef, today, effectDeps, cpDate>>

\* steps of an invocation in progress
ProcStep(p) ==
  \/ ServePull(p)
  \/ PullFail(p)
  \/ PullApply(p)
  \/ PushFind(p)
  \/ PushMark(p)
  \/ ServePush(p)
  \/ PushThrow(p)
  \/ PushNotOk(p)
  \/ PushResult(p)

\* Spec: one triggerSync cycle at a time beside the debounced push and the
\* dispatcher's edits
Next ==
  \/ Tick
  \/ \E r \in RecIds, v \in KeyVals : OtherWriter(r, v)
  \/ \E r \in RecIds, patch \in Patches : EditCall(r, patch)
  \/ EditQueue
  \/ ClearFailed
  \/ StartSync("p1")
  \/ StartPush("p2")
  \/ \E p \in Procs : ProcStep(p)

Spec == Init /\ [][Next]_vars

\* SpecSync: triggerSync invocations that overlap (the sync-requested
\* handler and the mount effect call triggerSync while a cycle runs), with
\* other writers updating the server and no local edits
NextSync ==
  \/ Tick
  \/ \E r \in RecIds, v \in KeyVals : OtherWriter(r, v)
  \/ \E p \in Procs :
       \/ StartSync(p)
       \/ ServePull(p)
       \/ PullFail(p)
       \/ PullApply(p)
       \/ PushFind(p)

SpecSync == Init /\ [][NextSync]_vars

\* ------------------------------------------ function-level specifications
\* SpecUpsert: a local store and a pull page are drawn; the page is applied
\* through upsertAssignment, document by document, twice
LocalDocs ==
  {d \in [key_status : KeyVals, driver_id : {"d1"}, updated_at : 1..2,
          lua : 0..1, pending : BOOLEAN] : d.pending => d.lua > 0}

ServerDocs ==
  [id : RecIds, key_status : KeyVals, driver_id : {"d1", "d2"},
   updated_at : 1..2, lua : {0}, pending : {FALSE}]

\* pages hold each record at most once
Pages ==
  UNION {{pg \in [1..n -> ServerDocs] :
            \A i, j \in 1..n : i # j => pg[i].id # pg[j].id} : n \in 0..NumRecs}

UpsertInit ==
  /\ EngineInit
  /\ \E st \in [RecIds -> LocalDocs \cup {NoDoc}], pg \in Pages :
       fx = [k |-> "upsert", page |-> pg, pos |-> 0, before |-> st,
             cur |-> st, once |-> st]

\* the document the next upsertAssignment call is given
UpsertDoc(f) == f.page[(f.pos % Len(f.page)) + 1]

UpsertNext ==
  /\ fx.pos < 2 * Len(fx.page)
  /\ LET after == upsertAssignment(fx.cur, UpsertDoc(fx))
     IN fx' = [fx EXCEPT !.pos = fx.pos + 1, !.before = fx.cur, !.cur = after,
                         !.once = IF fx.pos + 1 = Len(fx.page) THEN after
                                  ELSE fx.once]
  /\ UNCHANGED engineVars

SpecUpsert == UpsertInit /\ [][UpsertNext]_vars

\* SpecServer: rows, one mutation and the fate of the UPDATE are drawn; the
\* push endpoint processes the mutation
ServerRows ==
  [key_status : KeyVals, driver_id : {"d1"}, updated_at : 1..(3 * SubMs)]

PushMutations ==
  [id : {1}, assignment_id : RecIds \cup {0}, patch : Patches,
   timestamp : 0..3]

ServerInit ==
  /\ EngineInit
  /\ \E srv \in [RecIds -> ServerRows], m \in PushMutations,
        e \in BOOLEAN :
       fx = [k |-> "push", srv |-> srv, m |-> m, updateError |-> e,
             done |-> FALSE, out |-> srv, result |-> NoDoc]

ServerNext ==
  /\ ~fx.done
  /\ LET one == processMutation(fx.srv, fx.m, fx.updateError)
     IN fx' = [fx EXCEPT !.done = TRUE, !.out = one.srv,
                         !.result = one.result]
  /\ UNCHANGED engineVars

SpecServer == ServerInit /\ [][ServerNext]_vars

\* ------------------------------------------------------------ properties
\* an outbox entry of record r that is not yet resolved
HasUnresolved(q, r) ==
  \E m \in DOMAIN q : /\ q[m] # NoDoc
                      /\ q[m].assignment_id = r
                      /\ q[m].status \in {"pending", "in_flight"}

\* no local operation is partway through
Quiescent ==
  /\ edit.pc # "patched"
  /\ \A p \in Procs : proc[p].pc = "idle"

\* the step is a results-loop iteration of p that removes the entry of a
\* result with the given status
ResolvedStep(p, status) ==
  /\ proc[p].pc = "push_resp"
  /\ proc[p].results[proc[p].i].status = status
  /\ mutations[proc[p].results[proc[p].i].mutation_id] # NoDoc
  /\ mutations'[proc[p].results[proc[p].i].mutation_id] = NoDoc

\* the record the result under p's results loop is about
ResultRecord(p) ==
  mutations[proc[p].results[proc[p].i].mutation_id].assignment_id

\* C1: in every quiescent state a local record is flagged pending exactly
\* when the outbox holds an unresolved entry for it
C1_PendingIffUnresolved ==
  Quiescent =>
    \A r \in RecIds :
      assignments[r] # NoDoc =>
        (assignments[r].pending <=> HasUnresolved(mutations, r))

\* C2: upsertAssignment given a server document whose local record is
\* flagged pending leaves the store as it was
C2_UpsertSkipsPending ==
  [][(/\ fx.k = "upsert"
      /\ fx'.pos = fx.pos + 1
      /\ fx.cur[UpsertDoc(fx).id] # NoDoc
      /\ fx.cur[UpsertDoc(fx).id].pending)
     => fx'.cur = fx.cur]_vars

C2_Witness ==
  /\ fx.k = "upsert"
  /\ fx.pos = 1
  /\ fx.before[fx.page[1].id] # NoDoc
  /\ fx.before[fx.page[1].id].pending
  /\ fx.before[fx.page[1].id].key_status # fx.page[1].key_status
  /\ fx.before[fx.page[1].id].updated_at < fx.page[1].updated_at

\* C3: the stored pull checkpoint never decreases
C3_CheckpointMonotone == [][checkpointRef' >= checkpointRef]_vars

\* C4: applyLocalMutation called with a patch holding a key outside the
\* whitelist, or for an id with no local record, fails and leaves the local
\* store and the outbox as they were
C4_FailedEditLeavesState ==
  [][\A r \in RecIds, patch \in Patches :
       (/\ EditCall(r, patch)
        /\ \/ ~(DOMAIN patch \subseteq DISPATCHER_PATCHABLE_COLUMNS)
           \/ assignments[r] = NoDoc)
       => /\ edit'.pc \in {"invalid_keys", "not_found"}
          /\ UNCHANGED <<assignments, mutations>>]_vars

C4_Witness ==
  /\ edit.pc = "invalid_keys"
  /\ \E r \in RecIds : assignments[r] # NoDoc
  /\ \E m \in MutIds : mutations[m] # NoDoc

\* the mutation drawn by SpecServer is a whitelisted patch on a row of the
\* caller's scope
ValidOnExisting(f) ==
  /\ f.k = "push"
  /\ f.done
  /\ DOMAIN f.m.patch \subseteq DISPATCHER_PATCHABLE_COLUMNS
  /\ f.m.assignment_id \in DOMAIN f.srv

\* the conflict half of the rule: the row's updated_at is at or after the
\* mutation's timestamp, the row is returned and nothing is written
ConflictWhenNotNewer(f) ==
  f.m.timestamp * SubMs <= f.srv[f.m.assignment_id].updated_at =>
    /\ f.result.status = "conflict"
    /\ f.result.server_doc =
         denormalizeRow(f.m.assignment_id, f.srv[f.m.assignment_id])
    /\ f.out = f.srv

\* the mutation is answered accepted and its patch is on the row
AcceptedAndApplied(f) ==
  /\ f.result.status = "accepted"
  /\ f.out = [f.srv EXCEPT ![f.m.assignment_id] = ApplyPatch(@, f.m.patch)]

C6_UpsertIdempotent ==
  (fx.k = "upsert" /\ fx.pos = 2 * Len(fx.page)) => fx.cur = fx.once

C6_Witness ==
  /\ fx.k = "upsert"
  /\ Len(fx.page) >= 1
  /\ fx.pos = 2 * Len(fx.page)
  /\ fx.once[fx.page[1].id] # NoDoc
  /\ fx.once[fx.page[1].id].lua = 1
  /\ ~fx.once[fx.page[1].id].pending
  /\ fx.once[fx.page[1].id].updated_at = fx.page[1].updated_at

\* C7: an accepted result removes its entry and leaves the record flagged
\* pending while another unresolved entry of the record remains
C7_AcceptedKeepsFlagWhileUnresolved ==
  [][\A p \in Procs :
       (/\ ResolvedStep(p, "accepted")
        /\ assignments[ResultRecord(p)] # NoDoc
        /\ HasUnresolved(mutations', ResultRecord(p)))
       => assignments'[ResultRecord(p)].pending]_vars

\* C8: a conflict result with a server document sets the record's
\* server-owned fields to that document, removes the entry, and leaves the
\* record not pending unless another unresolved entry remains
C8_ConflictTakesServerDoc ==
  [][\A p \in Procs :
       (/\ ResolvedStep(p, "conflict")
        /\ assignments[ResultRecord(p)] # NoDoc)
       => LET r == ResultRecord(p)
              doc == proc[p].results[proc[p].i].server_doc
          IN /\ assignments'[r].key_status = doc.key_status
             /\ assignments'[r].driver_id = doc.driver_id
             /\ assignments'[r].updated_at = doc.updated_at
             /\ ~HasUnresolved(mutations', r) => ~assignments'[r].pending]_vars

\* C9: every push request lists its mutations by created_at ascending, and no
\* request brings the endpoint a mutation of a record older than one the
\* endpoint has already been given for that record
C9_ServerSeesCreationOrder ==
  [][\A p \in Procs :
       (proc[p].pc = "push_wait" /\ proc'[p].pc = "push_resp")
       => LET req == PushRequest(proc[p].snap)
          IN /\ \A i, j \in DOMAIN req :
                  i < j => req[i].timestamp <= req[j].timestamp
             /\ \A k \in DOMAIN req :
                  req[k].timestamp >= deliveredMax[req[k].assignment_id]]_vars

\* C10: no outbox entry is in two push requests that are both outstanding
C10_OneRequestPerEntry ==
  \A p, q \in Procs :
    (p # q /\ proc[p].pc = "push_wait" /\ proc[q].pc = "push_wait")
    => \A i \in DOMAIN proc[p].snap, j \in DOMAIN proc[q].snap :
         proc[p].snap[i].id # proc[q].snap[j].id

\* the step is pushMutations of p ending on a transport failure
TransportFailure(p) == PushThrow(p) \/ PushNotOk(p)

\* C11: when a push batch whose entries are below the retry ceiling fails at
\* the transport layer, every entry of the batch ends pending with a
\* retry_count one above its value when the attempt read it, and the entries
\* outside the batch are unchanged
C11_TransportFailureRevertsBatch ==
  [][\A p \in Procs :
       (/\ TransportFailure(p)
        /\ \A k \in DOMAIN proc[p].snap :
             proc[p].snap[k].retry_count < MAX_RETRIES)
       => LET ids == {proc[p].snap[k].id : k \in DOMAIN proc[p].snap}
          IN /\ \A k \in DOMAIN proc[p].snap :
                  LET h == proc[p].snap[k]
                  IN /\ mutations'[h.id] # NoDoc
                     /\ mutations'[h.id].status = "pending"
                     /\ mutations'[h.id].retry_count = h.retry_count + 1
             /\ \A m \in MutIds \ ids : mutations'[m] = mutations[m]]_vars

\* SpecRetry: the engine restarted on a persisted outbox: entries left
\* pending by earlier failed attempts, with any retry_count up to the
\* ceiling; triggerSync cycles that may overlap, no new edits
PersistedEntries ==
  {queueMutation([m \in {1} |-> NoDoc], 1, r, ("key_status" :> v), 1)[1] :
     r \in RecIds, v \in EditVals}

PersistedOutboxes(ids) ==
  {q \in [ids -> {NoDoc} \cup
                 UNION {{[e EXCEPT !.retry_count = n] :
                           n \in 0..MAX_RETRIES} : e \in PersistedEntries}] :
     \E m \in ids : q[m] # NoDoc}

\* the engine over a persisted outbox with entry ids ids
OutboxInit(ids) ==
  /\ mutations \in PersistedOutboxes(ids)
  /\ assignments =
       [r \in RecIds |->
          [key_status |-> "WITH_DRIVER", driver_id |-> "d1", updated_at |-> 1,
           lua |-> 1,
           pending |-> \E m \in ids : /\ mutations[m] # NoDoc
                                      /\ mutations[m].assignment_id = r]]
  /\ made = Cardinality(ids)
  /\ server = [r \in RecIds |->
                 [key_status |-> "STATION", driver_id |-> "d1", updated_at |-> 1]]
  /\ writes = 0
  /\ now = InitTime
  /\ checkpointRef = NoCp
  /\ cpDate = "none"
  /\ edit = IdleEdit
  /\ proc = [p \in Procs |-> IdleProc]
  /\ starts = 0
  /\ deliveredMax = [r \in RecIds |-> 0]
  /\ fx = NoFx
  /\ ProviderInit

RetryInit == OutboxInit(MutIds)

NextRetry ==
  \/ ClearFailed
  \/ \E p \in Procs : StartSync(p) \/ ProcStep(p)

SpecRetry == RetryInit /\ [][NextRetry]_vars

\* p sends its push request in this step
SendsRequest(p) == proc[p].pc = "mark" /\ proc'[p].pc = "push_wait"

\* C12: a transport failure of an entry read at the retry ceiling moves it
\* to failed; no entry is submitted with a retry_count above the ceiling;
\* and a failed entry is in no push request until clearFailedMutations has
\* made it pending again
C12_RetryCeiling ==
  [][\A p \in Procs :
       /\ TransportFailure(p) =>
            \A k \in DOMAIN proc[p].snap :
              LET h == proc[p].snap[k]
              IN (h.retry_count >= MAX_RETRIES /\ mutations[h.id] # NoDoc)
                   => mutations'[h.id].status = "failed"
       /\ SendsRequest(p) =>
            \A k \in DOMAIN proc[p].snap :
              LET h == proc[p].snap[k]
              IN /\ h.retry_count <= MAX_RETRIES
                 /\ mutations[h.id] # NoDoc
                      => mutations[h.id].status # "failed"]_vars

\* the step is a results-loop iteration of p on a rejected result whose
\* entry is still in the outbox
RejectedStep(p) ==
  /\ PushResult(p)
  /\ proc[p].results[proc[p].i].status = "rejected"
  /\ mutations[proc[p].results[proc[p].i].mutation_id] # NoDoc

\* C13: a rejected result moves its entry to failed with the server's error
\* message, and a failed entry is in no push request until
\* clearFailedMutations has made it pending again
C13_RejectedIsTerminal ==
  [][\A p \in Procs :
       /\ RejectedStep(p) =>
            LET res == proc[p].results[proc[p].i]
            IN /\ mutations'[res.mutation_id].status = "failed"
               /\ mutations'[res.mutation_id].error = res.error
       /\ SendsRequest(p) =>
            \A k \in DOMAIN proc[p].snap :
              mutations[proc[p].snap[k].id] # NoDoc
                => mutations[proc[p].snap[k].id].error = "none"]_vars

\* SpecBatch: one triggerSync cycle at a time over a persisted outbox that
\* may hold one entry more than the endpoint takes in a request
BatchInit == OutboxInit(1..(BatchCap + 1))

NextBatch ==
  \/ ClearFailed
  \/ StartSync("p1")
  \/ ProcStep("p1")

SpecBatch == BatchInit /\ [][NextBatch]_vars

\* C14: every push request holds at most as many mutations as the endpoint's
\* batch cap allows
C14_RequestWithinBatchCap ==
  [][\A p \in Procs :
       SendsRequest(p) => Len(PushRequest(proc[p].snap)) <= BatchCap]_vars

\* SpecPull: pull cycles against rows that do not change: one row more than
\* a page holds, with any updated_at (equal ones included), any local copies
\* and any stored checkpoint
PullIds == 1..(PageLimit + 1)

PullInit ==
  /\ server \in [PullIds -> [key_status : KeyVals, driver_id : {"d1"},
                             updated_at : 1..2]]
  /\ assignments \in
       [PullIds -> {NoDoc} \cup
                   [key_status : {"WITH_DRIVER"}, driver_id : {"d1"},
                    updated_at : {1}, lua : {1}, pending : BOOLEAN]]
  /\ checkpointRef \in {NoCp, EpochCp, 1}
  /\ cpDate = IF checkpointRef = NoCp THEN "none" ELSE FirstDay
  /\ mutations = [m \in MutIds |-> NoDoc]
  /\ made = 0
  /\ writes = 0
  /\ now = InitTime
  /\ edit = IdleEdit
  /\ proc = [p \in Procs |-> IdleProc]
  /\ starts = 0
  /\ deliveredMax = [r \in PullIds |-> 0]
  /\ fx = NoFx
  /\ ProviderInit

NextPull ==
  \/ StartSync("p1")
  \/ ServePull("p1")
  \/ PullFail("p1")
  \/ PullApply("p1")
  \/ PushFind("p1")

SpecPull == PullInit /\ [][NextPull]_vars

\* pullChanges of p returns in this step
PullCompletes(p) ==
  /\ proc[p].pc = "pull_page"
  /\ ~proc[p].more
  /\ PullApply(p)

\* C15: when pullChanges completes from checkpoint c against unchanged rows,
\* every row with updated_at after c (every row when there is no c) that has
\* no pending local edit is in the local store with the server's values,
\* and the checkpoint stored is the one the last page reported
C15_PullComplete ==
  [][\A p \in Procs :
       PullCompletes(p) =>
         /\ checkpointRef' = proc[p].respcp
         /\ \A r \in DOMAIN server :
              (/\ checkpointRef = NoCp \/ server[r].updated_at > checkpointRef
               /\ ~(assignments'[r] # NoDoc /\ assignments'[r].pending))
              => /\ assignments'[r] # NoDoc
                 /\ assignments'[r].key_status = server[r].key_status
                 /\ assignments'[r].driver_id = server[r].driver_id
                 /\ assignments'[r].updated_at = server[r].updated_at]_vars

\* ------------------------------------------------------------ connectivity
\* the window's offline event
handleOffline ==
  /\ onLine
  /\ onLine' = FALSE
  /\ setStatus([status |-> "offline", error |-> "none"])
  /\ UNCHANGED <<assignments, mutations, made, server, writes, now,
                 checkpointRef, edit, proc, starts, deliveredMax, fx, today,
                 effectDeps, cpDate>>

\* the window's online event; the handler belongs to the effect of the first
\* render, whose triggerSync has no database and returns at its guard
handleOnline ==
  /\ ~onLine
  /\ onLine' = TRUE
  /\ setStatus(ReadyState)
  /\ UNCHANGED <<assignments, mutations, made, server, writes, now,
                 checkpointRef, edit, proc, starts, deliveredMax, fx, today,
                 effectDeps, cpDate>>

\* SpecNet: triggerSync cycles, one at a time, while the browser goes offline
\* and online; the outbox holds one persisted entry for a record of the
\* second page, and the record of the first page is not in the local store
NetInit ==
  /\ mutations \in PersistedOutboxes({1})
  /\ assignments =
       [r \in PullIds |->
          IF r \in RecIds
            THEN [key_status |-> "WITH_DRIVER", driver_id |-> "d1",
                  updated_at |-> 1, lua |-> 1, pending |-> TRUE]
            ELSE NoDoc]
  /\ made = 1
  /\ server = [r \in PullIds |->
                 [key_status |-> "STATION", driver_id |-> "d1",
                  updated_at |-> Cardinality(PullIds) + 1 - r]]
  /\ writes = 0
  /\ now = InitTime
  /\ checkpointRef = NoCp
  /\ cpDate = "none"
  /\ edit = IdleEdit
  /\ proc = [p \in Procs |-> IdleProc]
  /\ starts = 0
  /\ deliveredMax = [r \in PullIds |-> 0]
  /\ fx = NoFx
  /\ ProviderInit

NextNet ==
  \/ handleOffline
  \/ handleOnline
  \/ StartSync("p1")
  \/ ProcStep("p1")

SpecNet == NetInit /\ [][NextNet]_vars

\* a step of a triggerSync cycle inside pullChanges
PullStep(p) ==
  /\ proc[p].kind = "sync"
  /\ proc[p].pc \in {"pull_wait", "pull_page"}
  /\ proc'[p] # proc[p]

\* C16: a failed page request ends the cycle without a push; no step of a
\* pull that has not returned its last page changes the stored checkpoint or
\* any outbox entry; and the failure sets status error with the message
\* while the browser is online
C16_PullFailureLeavesCheckpointAndOutbox ==
  [][\A p \in Procs :
       /\ (PullStep(p) /\ ~PullCompletes(p))
            => /\ checkpointRef' = checkpointRef
               /\ mutations' = mutations
       /\ PullFail(p)
            => /\ proc'[p].pc = "idle"
               /\ onLine => state' = [status |-> "error",
                                      error |-> "message"]]_vars

\* the first page was applied, the request for the second page failed while
\* online: the checkpoint was never stored and the outbox entry is there
C16_Witness ==
  /\ state.status = "error"
  /\ onLine
  /\ checkpointRef = NoCp
  /\ \E r \in PullIds \ RecIds : assignments[r] # NoDoc
  /\ \E m \in DOMAIN mutations : mutations[m] # NoDoc

\* ------------------------------------------------------------ the triggers
\* the sync-requested event: triggerSync is called whenever the database is
\* open
handleSyncRequested(p) == StartSync(p)

\* the periodic interval: triggerSync is called unless the status is syncing
Interval(p) ==
  /\ state.status # "syncing"
  /\ StartSync(p)

\* SpecTriggers: the triggers of triggerSync, the cycles they start up to
\* pushMutations on an empty outbox, and the browser going offline and online
NextTriggers ==
  \/ handleOffline
  \/ handleOnline
  \/ \E p \in Procs :
       \/ handleSyncRequested(p)
       \/ Interval(p)
       \/ ServePull(p)
       \/ PullFail(p)
       \/ PullApply(p)
       \/ PushFind(p)

SpecTriggers == Init /\ [][NextTriggers]_vars

\* a triggerSync invocation that passed its guard and has not ended
CycleOutstanding(p) == proc[p].kind = "sync" /\ proc[p].pc # "idle"

\* C17: a cycle starts only while the browser is online and no other cycle
\* is outstanding
C17_OneCycleAtATime ==
  [][\A p \in Procs :
       (~CycleOutstanding(p) /\ CycleOutstanding(p)')
         => /\ onLine
            /\ \A q \in Procs \ {p} : ~CycleOutstanding(q)]_vars

\* ------------------------------------------------- edits beside one cycle
\* db.mutations.insert throws: applyLocalMutation throws after its patch and
\* the calling hook does not reach triggerPush
EditQueueFail ==
  /\ edit.pc = "patched"
  /\ edit' = [edit EXCEPT !.pc = "insert_failed"]
  /\ UNCHANGED <<assignments, mutations, made, server, writes, now,
                 checkpointRef, proc, starts, deliveredMax, fx, state, onLine,
                 pushTimeoutRef, today, effectDeps, cpDate>>

\* SpecEdit: the dispatcher's edits, whose queue insert may fail, beside
\* triggerSync cycles
NextEdit ==
  \/ \E r \in RecIds, patch \in Patches : EditCall(r, patch)
  \/ EditQueue
  \/ EditQueueFail
  \/ StartSync("p1")
  \/ ProcStep("p1")

SpecEdit == Init /\ [][NextEdit]_vars

\* the outbox holds an entry with this record and patch
Queued(r, patch) ==
  \E m \in DOMAIN mutations :
    /\ mutations[m] # NoDoc
    /\ mutations[m].assignment_id = r
    /\ mutations[m].patch = patch

\* C18: while an applyLocalMutation call is past its patch, or has thrown
\* from its queue insert, the record it flagged pending has an outbox entry
\* for the edit
C18_PatchAndQueueAtomic ==
  \A r \in RecIds :
    (/\ edit.pc \in {"patched", "insert_failed"}
     /\ edit.id = r
     /\ assignments[r] # NoDoc
     /\ assignments[r].pending)
      => Queued(r, edit.patch)

\* ------------------------------------------------------------ the debounce
\* the debounce timer fires after the last edit of the window
DebounceFires(p) ==
  /\ made = MaxEdits
  /\ StartPush(p)

\* SpecDebounce: MaxEdits edits in one debounce window (the timer does not
\* fire between them), beside triggerSync cycles
NextDebounce ==
  \/ Tick
  \/ \E r \in RecIds, patch \in Patches : EditCall(r, patch)
  \/ EditQueue
  \/ StartSync("p1")
  \/ DebounceFires("p2")
  \/ \E p \in Procs : ProcStep(p)

SpecDebounce == Init /\ [][NextDebounce]_vars

\* the entry ids of the snapshot an invocation has read
SnapIds(p) == [i \in DOMAIN proc[p].snap |-> proc[p].snap[i].id]

\* C19: after the edits of one window the pending timer ends only by firing
\* into pushMutations; that invocation reads all entries of the window in
\* creation order, sends them in a request, and runs no pull
C19_DebounceCoalesces ==
  [][/\ (made = MaxEdits /\ pushTimeoutRef /\ ~pushTimeoutRef')
          => \E p \in Procs : StartPush(p)
     /\ \A p \in Procs :
          proc[p].kind = "push"
            => /\ PushFind(p) => SnapIds(p)' = [i \in 1..MaxEdits |-> i]
               /\ PushMark(p) => proc'[p].pc = "push_wait"
               /\ proc'[p].pc \notin {"pull_wait", "pull_page"}]_vars

\* C20: a pull or push that fails while the browser is online, in a
\* triggerSync cycle or in the debounced push, sets status error with the
\* message
C20_FailureSetsError ==
  [][\A p \in Procs :
       ((PullFail(p) \/ TransportFailure(p)) /\ onLine)
         => state' = [status |-> "error", error |-> "message"]]_vars

\* C21: while the browser is online the status is syncing whenever a cycle
\* is outstanding, and the status is syncing only while a cycle is
\* outstanding
C21_SyncingWhileCycle ==
  /\ ((\E p \in Procs : CycleOutstanding(p)) /\ onLine)
       => state.status = "syncing"
  /\ state.status = "syncing" => \E p \in Procs : CycleOutstanding(p)

\* ------------------------------------------------------- the sync effect
\* the effect of the initial and periodic sync is due to run: after the
\* database is opened, and whenever state.status is not the one it last ran
\* with
EffectDue == effectDeps # state.status

\* the effect runs and calls triggerSync(), which returns at its guard while
\* the browser is offline
SyncEffect(p) ==
  /\ EffectDue
  /\ effectDeps' = state.status
  /\ IF onLine
       THEN triggerSync(p)
       ELSE UNCHANGED <<Others, cpDate, proc, state, pushTimeoutRef>>
  /\ UNCHANGED starts

\* SpecEffect: the provider with its effect, which runs before any other
\* event is handled, the interval, the browser going offline and online, and
\* the cycles up to pushMutations on an empty outbox
NextEffect ==
  \/ \E p \in Procs : SyncEffect(p)
  \/ ~EffectDue /\ handleOffline
  \/ ~EffectDue /\ handleOnline
  \/ \E p \in Procs :
       \/ ~EffectDue /\ Interval(p)
       \/ ~EffectDue /\ ServePull(p)
       \/ ~EffectDue /\ PullFail(p)
       \/ ~EffectDue /\ PullApply(p)
       \/ ~EffectDue /\ PushFind(p)

SpecEffect == Init /\ [][NextEffect]_vars

\* C22: an online event sets the status to online and makes a cycle start at
\* once: the handler's triggerSync returns at its guard, so the start is the
\* effect's, which is due only when the status changed
C22_OnlineStartsCycle ==
  [][handleOnline => /\ state'.status = "online"
                     /\ EffectDue']_vars

\* C30: a cycle that the effect starts is the initial sync or follows an
\* online event (the status went from offline to online); every other cycle
\* start is a trigger's, which leaves the effect's dependencies alone
C30_StartsOnlyFromTriggers ==
  [][\A p \in Procs :
       (~CycleOutstanding(p) /\ CycleOutstanding(p)')
         => \/ effectDeps' = effectDeps
            \/ effectDeps = "unrun"
            \/ effectDeps = "offline" /\ state.status = "online"]_vars

\* C24: upsertAssignment never lowers a local record's updated_at: a server
\* document older than the stored one (a page of an overlapping pull, the
\* server_doc of a conflict) does not overwrite it
C24_UpsertKeepsNewer ==
  [][\A r \in RecIds :
       (assignments[r] # NoDoc /\ assignments'[r] # NoDoc)
         => assignments'[r].updated_at >= assignments[r].updated_at]_vars

\* ------------------------------------------------------------- re-delivery
\* SpecResend: rows, one mutation and an update by another writer are drawn;
\* the push endpoint processes the mutation, the other writer updates the
\* row, and the endpoint processes the same mutation again (the client
\* reverted the entry to pending in its catch block and sent it again)
OtherWrites ==
  [on : BOOLEAN, id : RecIds, key_status : KeyVals,
   updated_at : 1..(3 * SubMs)]

ResendInit ==
  /\ EngineInit
  /\ \E srv \in [RecIds -> ServerRows], m \in PushMutations,
        w \in OtherWrites :
       /\ w.updated_at >= srv[w.id].updated_at
       /\ fx = [k |-> "resend", step |-> 0, srv |-> srv, m |-> m, w |-> w,
                first |-> NoDoc, second |-> NoDoc]

\* the endpoint processes the mutation of the request
Deliver ==
  /\ fx.step \in {0, 2}
  /\ LET one == processMutation(fx.srv, fx.m, FALSE)
     IN fx' = IF fx.step = 0
                THEN [fx EXCEPT !.step = 1, !.srv = one.srv,
                                !.first = one.result]
                ELSE [fx EXCEPT !.step = 3, !.srv = one.srv,
                                !.second = one.result]
  /\ UNCHANGED engineVars

\* between the two deliveries another writer may update the row
ResendOtherWrite ==
  /\ fx.step = 1
  /\ fx' = [fx EXCEPT !.step = 2,
                      !.srv = IF fx.w.on
                                THEN [fx.srv EXCEPT
                                        ![fx.w.id].key_status = fx.w.key_status,
                                        ![fx.w.id].updated_at = fx.w.updated_at]
                                ELSE fx.srv]
  /\ UNCHANGED engineVars

NextResend == Deliver \/ ResendOtherWrite

SpecResend == ResendInit /\ [][NextResend]_vars

\* C25: a mutation whose first delivery was applied and which is sent again
\* is not applied a second time: the second delivery runs no UPDATE and
\* leaves the rows as they are
C25_ResentNotAppliedTwice ==
  [][(Deliver /\ fx.step = 2 /\ fx.first.status = "accepted")
       => /\ fx'.second.status # "accepted"
          /\ fx'.srv = fx.srv]_vars

\* ------------------------------------------------------------- getDatabase
\* SpecDb: sequences of getDatabase and closeDatabase calls against the
\* module's dbPromise; a creation may fail (createRxDatabase or
\* addCollections throws)
MaxCalls == 4

\* tenant ids, as the characters replace(/-/g, "_") works on
TenantIds == {<<"a", "-", "1">>, <<"b", "-", "2">>}

\* dbPromise = null
NoPromise == [kind |-> "null"]

\* a rejected Promise<SyncDatabase>
Rejected == [kind |-> "rejected"]

\* `dsp_nexus_${tenantId.replace(/-/g, "_")}`
dbName(tenantId) ==
  <<"dsp_nexus_">> \o
    [i \in DOMAIN tenantId |-> IF tenantId[i] = "-" THEN "_" ELSE tenantId[i]]

\* createDatabase(tenantId): the database of that name, or a rejection
createDatabase(tenantId, fails) ==
  IF fails THEN Rejected ELSE [kind |-> "db", name |-> dbName(tenantId)]

DbInit ==
  /\ EngineInit
  /\ fx = [k |-> "db", dbPromise |-> NoPromise, log |-> <<>>]

\* getDatabase(tenantId): the cached promise if there is one, else the
\* promise of a new creation, which is cached
getDatabase(tenantId, fails) ==
  /\ Len(fx.log) < MaxCalls
  /\ LET created == fx.dbPromise = NoPromise
         promise == IF created THEN createDatabase(tenantId, fails)
                    ELSE fx.dbPromise
     IN fx' = [fx EXCEPT !.dbPromise = promise,
                         !.log = Append(@, [op |-> "getDatabase",
                                            tenantId |-> tenantId,
                                            created |-> created,
                                            outcome |-> promise])]
  /\ UNCHANGED engineVars

\* closeDatabase(): awaits the cached promise (and throws with it), closes
\* the database and clears the cache
closeDatabase ==
  /\ Len(fx.log) < MaxCalls
  /\ fx.dbPromise # NoPromise
  /\ fx' = [fx EXCEPT !.dbPromise = IF fx.dbPromise = Rejected
                                      THEN fx.dbPromise ELSE NoPromise,
                      !.log = Append(@, [op |-> "closeDatabase",
                                         tenantId |-> <<>>,
                                         created |-> FALSE,
                                         outcome |-> fx.dbPromise])]
  /\ UNCHANGED engineVars

NextDb ==
  \/ \E t \in TenantIds, fails \in BOOLEAN : getDatabase(t, fails)
  \/ closeDatabase

SpecDb == DbInit /\ [][NextDb]_vars

\* C29: every getDatabase(t) call resolves to the database created for
\* tenant t, and is rejected only when the creation it started itself failed
C29_DatabaseOfTenant ==
  fx.k = "db" =>
    \A i \in DOMAIN fx.log :
      LET c == fx.log[i]
      IN c.op = "getDatabase" =>
           /\ c.outcome # Rejected => c.outcome.name = dbName(c.tenantId)
           /\ c.outcome = Rejected => c.created

\* ---------------------------------------------------------------- rollover
\* midnight passes in the provider's time zone while it stays mounted:
\* todayInTimeZone() returns the next date from now on
DayRollover ==
  /\ today = FirstDay
  /\ today' = NextDay
  /\ UNCHANGED <<assignments, mutations, made, server, writes, now,
                 checkpointRef, edit, proc, starts, deliveredMax, fx, state,
                 onLine, pushTimeoutRef, effectDeps, cpDate>>

\* SpecRollover: triggerSync cycles, one at a time, before and after the
\* date changes, with other writers updating the server
NextRollover ==
  \/ Tick
  \/ \E r \in RecIds, v \in KeyVals : OtherWriter(r, v)
  \/ DayRollover
  \/ StartSync("p1")
  \/ ServePull("p1")
  \/ PullFail("p1")
  \/ PullApply("p1")
  \/ PushFind("p1")

SpecRollover == Init /\ [][NextRollover]_vars

\* C28: the checkpoint a cycle sends with its first pull request for date D
\* is absent or was produced by an earlier pull for the same date D
C28_CheckpointOfSameDate ==
  [][\A p \in Procs :
       (proc[p].pc = "idle" /\ proc'[p].pc = "pull_wait")
         => \/ proc'[p].cp = NoCp
            \/ cpDate = proc'[p].date]_vars

\* ---------------------------------------------------------------- in_flight
\* a pushMutations invocation is between its find and its return or throw
PushInProgress(p) == proc[p].pc \in {"find", "mark", "push_wait", "push_resp"}

InFlight(q) == {m \in DOMAIN q : q[m] # NoDoc /\ q[m].status = "in_flight"}

\* ----------------------------------------------------------------- restart
\* the page is closed or reloaded and the provider is mounted again: the
\* collections persist in IndexedDB, everything held in memory (the
\* invocations in progress, checkpointRef, the debounce timer, SyncState)
\* starts anew (a restart counts as a start: there are at most MaxStarts)
Teardown ==
  /\ \/ \E p \in Procs : proc[p].pc # "idle"
     \/ edit.pc # "idle"
  /\ starts < MaxStarts
  /\ starts' = starts + 1
  /\ proc' = [p \in Procs |-> IdleProc]
  /\ edit' = IdleEdit
  /\ checkpointRef' = NoCp
  /\ cpDate' = "none"
  /\ pushTimeoutRef' = FALSE
  /\ state' = ReadyState
  /\ effectDeps' = "unrun"
  /\ UNCHANGED <<assignments, mutations, made, server, writes, now,
                 deliveredMax, fx, onLine, today>>

\* the interval timer calls triggerSync, any number of times
Periodic(p) ==
  /\ state.status # "syncing"
  /\ triggerSync(p)
  /\ UNCHANGED <<starts, effectDeps>>

\* SpecRestart: the dispatcher's edits and periodic triggerSync cycles, one
\* at a time, whose requests may fail, across restarts of the session
NextRestart ==
  \/ \E r \in RecIds, patch \in Patches : EditCall(r, patch)
  \/ EditQueue
  \/ Periodic("p1")
  \/ ProcStep("p1")
  \/ Teardown

SpecRestart == Init /\ [][NextRestart]_vars

\* C27: whenever no pushMutations invocation is in progress, no outbox entry
\* has status in_flight
C27_NoStrandedInFlight ==
  (\A p \in Procs : ~PushInProgress(p)) => InFlight(mutations) = {}

\* SpecLive: SpecRestart where the interval keeps firing and a cycle's
\* requests are answered: a step that stays possible is taken, and the pull
\* and push requests, which may fail any number of times, succeed again and
\* again
Fairness ==
  /\ WF_vars(EditQueue)
  /\ WF_vars(Periodic("p1"))
  /\ SF_vars(ServePull("p1"))
  /\ WF_vars(PullApply("p1"))
  /\ WF_vars(PushFind("p1"))
  /\ WF_vars(PushMark("p1"))
  /\ SF_vars(ServePush("p1"))
  /\ SF_vars(PushResult("p1"))

SpecLive == SpecRestart /\ Fairness

\* the entry with id m is queued and neither removed nor failed
Unresolved(m) ==
  /\ mutations[m] # NoDoc
  /\ mutations[m].status \in {"pending", "in_flight"}

\* C23: every queued entry is eventually removed or failed; none stays
\* pending or in_flight forever
C23_EventuallyResolved ==
  \A m \in MutIds : Unresolved(m) ~> ~Unresolved(m)

\* ------------------------------------------------------------- convergence
\* SpecConverge: a bounded number of edits and of updates by other writers,
\* then periodic triggerSync cycles, one at a time, whose requests are all
\* answered, without restarts
NextConverge ==
  \/ Tick
  \/ \E r \in RecIds, v \in KeyVals : OtherWriter(r, v)
  \/ \E r \in RecIds, patch \in Patches : EditCall(r, patch)
  \/ EditQueue
  \/ Periodic("p1")
  \/ ServePull("p1")
  \/ PullApply("p1")
  \/ PushFind("p1")
  \/ PushMark("p1")
  \/ ServePush("p1")
  \/ PushResult("p1")

SpecConverge == Init /\ [][NextConverge]_vars /\ Fairness

\* the local record r equals the server's document and is not flagged
InSync(r) ==
  /\ assignments[r] # NoDoc
  /\ assignments[r].key_status = server[r].key_status
  /\ assignments[r].driver_id = server[r].driver_id
  /\ assignments[r].updated_at = server[r].updated_at
  /\ ~assignments[r].pending

\* no entry is pending or in_flight and every record is in sync
Converged ==
  /\ \A m \in MutIds : ~Unresolved(m)
  /\ \A r \in RecIds : InSync(r)

\* an entry was refused by the endpoint and waits for the dispatcher
AnyFailed ==
  \E m \in MutIds : mutations[m] # NoDoc /\ mutations[m].status = "failed"

\* C26: once edits and server-side writes have stopped and cycles keep
\* completing (no entry refused), the outbox eventually holds no pending or
\* in_flight entry and every local record equals the server's document
\* with _pending_sync false, and stays so
C26_Converges == <>[](AnyFailed \/ Converged)
====
